---------------------------- MODULE Spec2Model ----------------------------
(***************************************************************************)
(* A model of seaflowpy's EVT filtering program (filterevt.py):            *)
(*   - the LabVIEW binary codec   (EVT.read_evt, EVT.write_opp_binary),    *)
(*   - the filter                 (EVT.filter),                            *)
(*   - the S3 download with retry (download_s3_file_memory),               *)
(*   - the per-file worker        (do_work / filter_one_file),             *)
(*   - the batch driver           (filter_files).                          *)
(*                                                                         *)
(* Numbers.  Particle values are the file's unsigned 16-bit words widened  *)
(* to float64; every value the model draws is an integer below 2^15, so    *)
(* the float64 arithmetic of filter() is exact on them except for the      *)
(* divisions, which are kept as fractions [n, d] (d = 0 is NaN).           *)
(* Optional values (Python's None) are sequences of length 0 or 1.         *)
(***************************************************************************)
EXTENDS Integers, Sequences, FiniteSets, TLC

(***************************************************************************)
(* Bounds of the model                                                     *)
(***************************************************************************)
\* largest number of input files of a batch
MaxFiles == 10
\* largest number of rows in a generated EVT body
MaxRows == 2
\* largest number of files of a batch that meet a fault (a download that
\* fails at every attempt, an interrupted worker)
MaxFaults == 1
\* largest batch in which files are read from S3 or a fault is drawn; larger
\* batches read local files and meet no fault
MaxFaultyBatch == 3
\* how many attempts the remote store may be asked for before the model
\* stops counting (one more than the program's retries, so that a further
\* attempt would be seen)
MaxCalls == 6
\* greatest number of input files of a batch run with sinks
MaxSinkFiles == 2
\* greatest number of files the validation command is run on
MaxValFiles == 3

(***************************************************************************)
(* Python values                                                           *)
(***************************************************************************)
None == <<>>
Some(v) == <<v>>
IsNone(o) == Len(o) = 0
Val(o) == o[1]

Min2(a, b) == IF a < b THEN a ELSE b

\* float values: a fraction n/d with d > 0, or NaN (d = 0)
Fr(n, d) == [n |-> n, d |-> d]
RInt(n) == Fr(n, 1)
NaN == Fr(0, 0)
IsNaN(a) == a.d = 0
RAdd(a, b) == IF IsNaN(a) \/ IsNaN(b) THEN NaN ELSE Fr(a.n * b.d + b.n * a.d, a.d * b.d)
RSub(a, b) == IF IsNaN(a) \/ IsNaN(b) THEN NaN ELSE Fr(a.n * b.d - b.n * a.d, a.d * b.d)
RMul(a, b) == IF IsNaN(a) \/ IsNaN(b) THEN NaN ELSE Fr(a.n * b.n, a.d * b.d)
RDiv(a, b) == IF IsNaN(a) \/ IsNaN(b) \/ b.n = 0 THEN NaN
              ELSE IF b.n > 0 THEN Fr(a.n * b.d, a.d * b.n)
              ELSE Fr(-(a.n * b.d), -(a.d * b.n))
\* comparisons with NaN are false, as in IEEE 754
RLt(a, b) == ~IsNaN(a) /\ ~IsNaN(b) /\ a.n * b.d < b.n * a.d
RGt(a, b) == RLt(b, a)
REq(a, b) == ~IsNaN(a) /\ ~IsNaN(b) /\ a.n * b.d = b.n * a.d
RLe(a, b) == RLt(a, b) \/ REq(a, b)
\* the same float (NaN taken as one value)
RSame(a, b) == (IsNaN(a) /\ IsNaN(b)) \/ REq(a, b)

(***************************************************************************)
(* EVT: columns and the object                                             *)
(***************************************************************************)
\* EVT.cols: position of each named column in a decoded row
ColTime == 1
ColPulseWidth == 2
ColD1 == 3
ColD2 == 4
ColFscSmall == 5
NCols == 10
\* words per particle in the file (two leading words + EVT.cols)
FileCols == 12
\* unit scaling of width and offset in filter()
E4 == 10000

\* EVT.__init__ before read_evt()
EVTNew(path, fileobj) ==
    [ path |-> path, fileobj |-> fileobj,
      headercnt |-> 0, evtcnt |-> 0, oppcnt |-> 0,
      opp_evt_ratio |-> RInt(0),
      evt |-> None, opp |-> None,
      notch1 |-> None, notch2 |-> None, offset |-> None,
      origin |-> None, width |-> None ]

\* outcome of a method: the exception raised ("" for none) and the object
Ret(self) == [raised |-> "", self |-> self]
Raise(exc, self) == [raised |-> exc, self |-> self]

(***************************************************************************)
(* Codec: decode                                                           *)
(***************************************************************************)
\* np.fromstring(..., dtype="uint16"/"uint32"): little-endian unsigned value
RECURSIVE LeUint(_)
LeUint(b) == IF b = <<>> THEN 0 ELSE b[1] + 256 * LeUint(Tail(b))

\* fh.read(n) at offset pos: at most n bytes, fewer at end of file
FhRead(data, pos, n) == SubSeq(data, pos + 1, Min2(pos + n, Len(data)))

\* np.reshape(particles, [rowcnt, 12]) of the uint16 words of buff
Particles(buff, rowcnt) ==
    [r \in 1..rowcnt |->
        [c \in 1..FileCols |->
            LeUint(SubSeq(buff, ((r - 1) * FileCols + (c - 1)) * 2 + 1,
                                ((r - 1) * FileCols + (c - 1)) * 2 + 2))]]

\* np.delete(particles, [0, 1], 1): drop the first two words of each row
DropLeading(particles) ==
    [r \in 1..Len(particles) |-> SubSeq(particles[r], 3, FileCols)]

\* the byte count read_evt() compares with the expected one
SawBytes(data, expected_bytes) == Len(FhRead(data, 4, expected_bytes))

\* EVT.read_evt
read_evt(self) ==
    LET data == self.fileobj
        hdr == FhRead(data, 0, 4)
    IN  IF Len(hdr) = 0 THEN Raise("EVTFileError", self)
        ELSE IF Len(hdr) # 4 THEN Raise("EVTFileError", self)
        ELSE LET rowcnt == LeUint(hdr)
                 expected_bytes == rowcnt * FileCols * 2
             IN  IF rowcnt = 0 THEN Raise("EVTFileError", self)
                 ELSE IF SawBytes(data, expected_bytes) # expected_bytes
                      THEN Raise("EVTFileError", self)
                 ELSE LET evt == DropLeading(
                                   Particles(FhRead(data, 4, expected_bytes), rowcnt))
                      IN  Ret([self EXCEPT !.evt = Some(evt),
                                           !.evtcnt = Len(evt),
                                           !.headercnt = rowcnt])

\* EVT(path=..., fileobj=..., read_data=...)
EVT(path, fileobj, read_data) ==
    IF read_data THEN read_evt(EVTNew(path, fileobj))
    ELSE Ret(EVTNew(path, fileobj))

(***************************************************************************)
(* Filter                                                                  *)
(***************************************************************************)
\* the literal added to min1 / min2 in the notch formula
NotchShift == 10000

RECURSIVE SortInsert(_, _)
SortInsert(s, v) ==
    IF s = <<>> THEN <<v>>
    ELSE IF v <= s[1] THEN <<v>> \o s
    ELSE <<s[1]>> \o SortInsert(Tail(s), v)

RECURSIVE SortAsc(_)
SortAsc(s) == IF s = <<>> THEN <<>> ELSE SortInsert(SortAsc(Tail(s)), s[1])

\* pandas Series.median(): middle value, or the mean of the two middle
\* values; NaN for an empty series
Median(s) ==
    LET srt == SortAsc(s)
        n == Len(s)
    IN  IF n = 0 THEN NaN
        ELSE IF n % 2 = 1 THEN RInt(srt[(n + 1) \div 2])
        ELSE Fr(srt[n \div 2] + srt[n \div 2 + 1], 2)

RECURSIVE SeqMax(_)
SeqMax(s) == IF Len(s) = 1 THEN s[1]
             ELSE LET m == SeqMax(Tail(s)) IN IF s[1] > m THEN s[1] ELSE m

RECURSIVE SeqMin(_)
SeqMin(s) == IF Len(s) = 1 THEN s[1]
             ELSE LET m == SeqMin(Tail(s)) IN IF s[1] < m THEN s[1] ELSE m

Column(rows, col) == [r \in 1..Len(rows) |-> rows[r][col]]

\* pandas Series.max() / .min(): NaN for an empty series
SeriesMax(rows, col) == IF rows = <<>> THEN NaN ELSE RInt(SeqMax(Column(rows, col)))
SeriesMin(rows, col) == IF rows = <<>> THEN NaN ELSE RInt(SeqMin(Column(rows, col)))

\* the rows the origin is computed from when it is not supplied
OriginRowsAfterFloor(evt) == SelectSeq(evt, LAMBDA r : r[ColFscSmall] > 1)
OriginRows(evt) == evt

\* (self.evt["D2"] - self.evt["D1"]).median()
ComputeOrigin(evt) ==
    LET rows == OriginRows(evt)
    IN  Median([r \in 1..Len(rows) |-> rows[r][ColD2] - rows[r][ColD1]])

\* self.evt[self.evt["fsc_small"] > 1]
Candidates(evt) == SelectSeq(evt, LAMBDA r : r[ColFscSmall] > 1)

\* opp[alignedD1 & alignedD2]
AlignedRows(opp, origin, width) ==
    LET w4 == RMul(width, RInt(E4))
        alignedD1(r) == RLt(RAdd(RInt(r[ColD1]), origin), RAdd(RInt(r[ColD2]), w4))
        alignedD2(r) == RLt(RInt(r[ColD2]), RAdd(RAdd(RInt(r[ColD1]), origin), w4))
    IN  SelectSeq(opp, LAMBDA r : alignedD1(r) /\ alignedD2(r))

\* notch1 (col = D1) or notch2 (col = D2) when it is not supplied
ComputeNotchAtMaxOnly(aligned, col) ==
    LET fsc_small_max == SeriesMax(aligned, ColFscSmall)
        max1 == SeriesMax(aligned, col)
    IN  RDiv(fsc_small_max, RAdd(max1, RInt(NotchShift)))
ComputeNotch(aligned, col) ==
    LET fsc_small_max == SeriesMax(aligned, ColFscSmall)
        atmax == SelectSeq(aligned, LAMBDA r : REq(RInt(r[ColFscSmall]), fsc_small_max))
        min1 == SeriesMin(atmax, col)
        atmin == SelectSeq(aligned, LAMBDA r : REq(RInt(r[col]), min1))
        max1 == SeriesMax(atmin, ColFscSmall)
    IN  RDiv(max1, RAdd(min1, RInt(NotchShift)))

\* aligned[oppD1 & oppD2]
FocusedRowsD1Only(aligned, notch1, notch2, offset) ==
    LET o4 == RMul(offset, RInt(E4))
        oppD1(r) == RGt(RInt(r[ColFscSmall]), RSub(RMul(RInt(r[ColD1]), notch1), o4))
    IN  SelectSeq(aligned, LAMBDA r : oppD1(r))
FocusedRows(aligned, notch1, notch2, offset) ==
    LET o4 == RMul(offset, RInt(E4))
        oppD1(r) == RGt(RInt(r[ColFscSmall]), RSub(RMul(RInt(r[ColD1]), notch1), o4))
        oppD2(r) == RGt(RInt(r[ColFscSmall]), RSub(RMul(RInt(r[ColD2]), notch2), o4))
    IN  SelectSeq(aligned, LAMBDA r : oppD1(r) /\ oppD2(r))

\* float(self.oppcnt) / self.evtcnt, 0.0 on ZeroDivisionError
RatioInverted(oppcnt, evtcnt) == IF oppcnt = 0 THEN RInt(0) ELSE Fr(evtcnt, oppcnt)
Ratio(oppcnt, evtcnt) == IF evtcnt = 0 THEN RInt(0) ELSE Fr(oppcnt, evtcnt)

\* filter()'s keyword defaults
FilterDefaults ==
    [notch1 |-> None, notch2 |-> None, offset |-> Some(RInt(0)),
     origin |-> None, width |-> Some(Fr(1, 2))]

\* the guards of filter(): "return" (no data), "raise" (ValueError) or "run"
FilterGuardParamsFirst(self, o) ==
    IF IsNone(o.width) \/ IsNone(o.offset) THEN "raise"
    ELSE IF IsNone(self.evt) \/ self.evtcnt = 0 THEN "return"
    ELSE "run"
FilterGuard(self, o) ==
    IF IsNone(self.evt) \/ self.evtcnt = 0 THEN "return"
    ELSE IF IsNone(o.width) \/ IsNone(o.offset) THEN "raise"
    ELSE "run"

\* EVT.filter(notch1, notch2, offset, origin, width)
filter(self, o) ==
    IF FilterGuard(self, o) = "return" THEN Ret(self)
    ELSE IF FilterGuard(self, o) = "raise" THEN Raise("ValueError", self)
    ELSE LET evt == Val(self.evt)
             offset == Val(o.offset)
             width == Val(o.width)
             origin == IF IsNone(o.origin) THEN ComputeOrigin(evt) ELSE Val(o.origin)
             opp0 == Candidates(evt)
             aligned == AlignedRows(opp0, origin, width)
             notch1 == IF IsNone(o.notch1) THEN ComputeNotch(aligned, ColD1)
                       ELSE Val(o.notch1)
             notch2 == IF IsNone(o.notch2) THEN ComputeNotch(aligned, ColD2)
                       ELSE Val(o.notch2)
             opp == FocusedRows(aligned, notch1, notch2, offset)
         IN  Ret([self EXCEPT !.opp = Some(opp),
                              !.oppcnt = Len(opp),
                              !.opp_evt_ratio = Ratio(Len(opp), self.evtcnt),
                              !.notch1 = Some(notch1),
                              !.notch2 = Some(notch2),
                              !.offset = Some(offset),
                              !.origin = Some(origin),
                              !.width = Some(width)])

(***************************************************************************)
(* Codec: encode                                                           *)
(***************************************************************************)
\* ndarray.tofile of one unsigned value of n bytes, little-endian
RECURSIVE LeBytes(_, _)
LeBytes(v, n) == IF n = 0 THEN <<>> ELSE <<v % 256>> \o LeBytes(v \div 256, n - 1)

\* astype(np.uint16) of a float64 holding a non-negative integer
AsUint16(v) == v % 65536

\* the two leading words create_opp_for_binary() inserts: "tens", "zeros"
LeadingWordsSwapped(row) == <<0, 10>>
LeadingWords(row) == <<10, 0>>

\* EVT.create_opp_for_binary: the uint16 matrix, 12 words per retained row
create_opp_for_binary(self) ==
    LET opp == Val(self.opp)
    IN  [r \in 1..self.oppcnt |->
            LeadingWords(opp[r]) \o [c \in 1..NCols |-> AsUint16(opp[r][c])]]

RECURSIVE MatrixBytes(_)
MatrixBytes(m) ==
    IF m = <<>> THEN <<>>
    ELSE LET row == m[1]
             RowB[k \in 0..Len(row)] ==
                 IF k = 0 THEN <<>> ELSE RowB[k - 1] \o LeBytes(row[k], 2)
         IN  RowB[Len(row)] \o MatrixBytes(Tail(m))

\* EVT.write_opp_binary: the bytes written to outfile, None when no file
\* is opened
write_opp_binary(self) ==
    IF self.oppcnt = 0 THEN None
    ELSE Some(LeBytes(self.oppcnt, 4) \o MatrixBytes(create_opp_for_binary(self)))

(***************************************************************************)
(* Sinks: the relational store and the binary output directory             *)
(***************************************************************************)
\* the columns of int_cols = cols[:2] and of float_cols = cols[2:]
IntCols == <<ColTime, ColPulseWidth>>
FloatCols == <<3, 4, 5, 6, 7, 8, 9, 10>>

\* a path as file_re matches it: the directories before the julian day
\* directory, the julian day directory ("" when there is none), the file name
PathOf(dir, julian, file) == [dir |-> dir, julian |-> julian, file |-> file]

\* EVT.get_julian_path: the components of os.path.join(julian, file), or the
\* file name alone
get_julian_path(self) ==
    IF self.path.julian # "" THEN <<self.path.julian, self.path.file>>
    ELSE <<self.path.file>>

\* os.path.dirname of a path given by its components
Dirname(components) == SubSeq(components, 1, Len(components) - 1)

\* EVT.transform: 10**((vals / 2**16) * 3.5), kept as the exponent of 10
transform(vals) == [pow10 |-> RMul(RDiv(vals, RInt(65536)), Fr(7, 2))]

RECURSIVE SeqSum(_)
SeqSum(s) == IF s = <<>> THEN 0 ELSE s[1] + SeqSum(Tail(s))

\* Series.mean()
SeriesMean(rows, col) ==
    IF rows = <<>> THEN NaN ELSE Fr(SeqSum(Column(rows, col)), Len(rows))

\* EVT.calc_opp_stats followed by the transform of insert_filter_sqlite3: min,
\* max and mean of each float column
OppStats(self) ==
    [c \in 1..Len(FloatCols) |->
        [min |-> transform(SeriesMin(Val(self.opp), FloatCols[c])),
         max |-> transform(SeriesMax(Val(self.opp), FloatCols[c])),
         mean |-> transform(SeriesMean(Val(self.opp), FloatCols[c]))]]

\* np.arange(1, self.oppcnt + 1)
ParticleIdsFromZero(oppcnt) == [k \in 1..oppcnt |-> k - 1]
ParticleIds(oppcnt) == [k \in 1..oppcnt |-> k]

\* EVT.create_opp_for_db: one row per retained particle, keyed by cruise,
\* file and particle, the float columns transformed
create_opp_for_db(self, cruise) ==
    LET opp == Val(self.opp)
    IN  [k \in 1..Len(opp) |->
            [cruise |-> cruise,
             file |-> get_julian_path(self),
             particle |-> ParticleIds(self.oppcnt)[k],
             ints |-> [c \in 1..Len(IntCols) |-> opp[k][IntCols[c]]],
             floats |-> [c \in 1..Len(FloatCols) |->
                            transform(RInt(opp[k][FloatCols[c]]))]]]

\* the values insert_filter_sqlite3 inserts in table filter
FilterVals(self, cruise_name) ==
    [cruise |-> cruise_name,
     file |-> get_julian_path(self),
     opp_count |-> self.oppcnt,
     evt_count |-> self.evtcnt,
     opp_evt_ratio |-> self.opp_evt_ratio,
     notch1 |-> Val(self.notch1), notch2 |-> Val(self.notch2),
     offset |-> Val(self.offset), origin |-> Val(self.origin),
     width |-> Val(self.width),
     stats |-> OppStats(self)]

\* the empty database ensure_tables() creates
EmptyDb == [opp |-> <<>>, filter |-> <<>>]

\* PRIMARY KEY (cruise, file, particle) of table opp
OppKeyTaken(db, row) ==
    \E j \in 1..Len(db.opp) :
        /\ db.opp[j].cruise = row.cruise
        /\ db.opp[j].file = row.file
        /\ db.opp[j].particle = row.particle

\* PRIMARY KEY (cruise, file) of table filter
FilterKeyTaken(db, row) ==
    \E j \in 1..Len(db.filter) :
        /\ db.filter[j].cruise = row.cruise
        /\ db.filter[j].file = row.file

\* outcome of an insert method: the exception raised ("" for none), the
\* database after it, and whether a statement was sent to the database
DbRet(raised, db, sent) == [raised |-> raised, db |-> db, sent |-> sent]

\* EVT.insert_opp_sqlite3: executemany and commit in one transaction; fault:
\* the database fails the statement (lock wait timed out, I/O error)
insert_opp_sqlite3(self, cruise, db, fault) ==
    IF self.oppcnt = 0 THEN DbRet("", db, FALSE)
    ELSE LET opp == create_opp_for_db(self, cruise)
         IN  IF fault \/ \E k \in 1..Len(opp) : OppKeyTaken(db, opp[k])
             THEN DbRet("sqlite3.Error", db, TRUE)
             ELSE DbRet("", [db EXCEPT !.opp = db.opp \o opp], TRUE)

\* EVT.insert_filter_sqlite3: execute and commit in a transaction of its own
insert_filter_sqlite3(self, cruise_name, db, fault) ==
    IF IsNone(self.opp) \/ self.evtcnt = 0 \/ self.oppcnt = 0
    THEN DbRet("", db, FALSE)
    ELSE LET vals == FilterVals(self, cruise_name)
         IN  IF fault \/ FilterKeyTaken(db, vals)
             THEN DbRet("sqlite3.Error", db, TRUE)
             ELSE DbRet("", [db EXCEPT !.filter = Append(db.filter, vals)], TRUE)

\* EVT.save_opp_to_db, "except: raise": the exception of an insert leaves the
\* method
SaveSwallows(raised) == ""
SaveRaises(raised) == raised

\* gzip_file(path): the file is replaced by its compressed form
Gzip(bytes) == [gzip |-> bytes]

\* what the binary_dir branch of filter_one_file leaves at outfile: nothing,
\* the bytes of write_opp_binary, or their gzip when gz_binary is set
OutFile(self, gz_binary) ==
    IF IsNone(write_opp_binary(self)) THEN None
    ELSE IF gz_binary THEN Some(Gzip(Val(write_opp_binary(self))))
    ELSE write_opp_binary(self)

(***************************************************************************)
(* State                                                                   *)
(***************************************************************************)
VARIABLES
    \* one EVT object driven through its methods (SpecEVT)
    x,          \* the bytes of the input file
    read_data,  \* the read_data argument the object was constructed with
    epc,        \* "new", "ready", "failed", "filtered", "written"
    obj,        \* the EVT object
    err,        \* exception raised by the last method call, "" for none
    opts,       \* keyword arguments of the last filter() call
    prev,       \* the EVT object as it was before the last filter() call
    out,        \* bytes of the file write_opp_binary() wrote, None if none
    \* a batch run of filter_files (Spec)
    files,        \* number of input files; file f is the f-th input
    every,        \* progress resolution in percent
    cpus,         \* size of the worker pool
    s3,           \* read the files from S3
    s3_missing,   \* files whose download fails at every attempt
    sigint,       \* files during whose processing the worker is interrupted
    nextin,       \* next input the pool hands to a worker
    running,      \* inputs being processed by a worker
    outq,         \* what the workers produced, not yet seen by the loop
    pc,           \* "loop", "after", "done", "aborted"
    completed,    \* number of results the loop has consumed (i + 1)
    evtcnt, oppcnt, files_ok,
    last, evtcnt_block, oppcnt_block,
    reports,      \* the block reports printed so far
    consumed,     \* the results the loop has consumed, in order
    \* one call of filter_one_file (SpecWorker); it reads x, with s3 as above
    wpc,          \* "start", "fetch", "sleep", "evt", "returned", "raised"
    wopts,        \* the filter_options of the call
    tries,        \* download_s3_file_memory: failed attempts so far
    attempts,     \* the outcome of each obj.get() so far (TRUE: succeeded)
    slept,        \* the whole seconds of each time.sleep() so far
    fileobj,      \* the downloaded bytes, None before
    result,       \* the dictionary filter_one_file returns
    wraised,      \* the exception that left filter_one_file, "" for none
    \* a batch run with sinks, the workers taken step by step (SpecSink)
    inputs,       \* the input files: path and contents
    sopts,        \* the options db, no_opp_db, binary_dir, gz_binary
    wst,          \* per file, where its worker is in filter_one_file
    wevt,         \* per file, the EVT object of its worker
    db,           \* the tables opp and filter of the SQLite3 database
    binary_root,  \* what exists at and under binary_dir
    db_calls,     \* the insert statements sent to the database so far
    \* one run of the validation command (SpecValidate)
    vfiles,          \* the files argument
    vflags,          \* the options no_header, opp, no_summary, verbose
    vpc,             \* "start", "loop", "summary", "done"
    vidx,            \* number of files the loop has gone through
    n_ok, n_bad,     \* the counters ok and bad
    header_printed,
    printed          \* the lines printed so far

evtVars == <<x, read_data, epc, obj, err, opts, prev, out>>
poolVars == <<files, every, cpus, s3, s3_missing, sigint, nextin, running, outq>>
loopVars == <<pc, completed, evtcnt, oppcnt, files_ok, last, evtcnt_block, oppcnt_block,
              reports, consumed>>
workerVars == <<wpc, wopts, tries, attempts, slept, fileobj, result, wraised>>
sinkVars == <<inputs, sopts, wst, wevt, db, binary_root, db_calls>>
valVars == <<vfiles, vflags, vpc, vidx, n_ok, n_bad, header_printed, printed>>
vars == <<evtVars, poolVars, loopVars, workerVars, sinkVars, valVars>>

(***************************************************************************)
(* Input files of SpecEVT                                                  *)
(***************************************************************************)
EvtPath == "2014_185/2014-07-04T00-00-02+00-00"

\* (D1, D2, fsc_small) of the particles the generated files are made of
ParticleChoices ==
    { <<0, 0, 9000>>, <<6000, 6000, 2>>, <<0, 6000, 1>>,
      <<0, 6000, 9000>>, <<6000, 6000, 9000>>, <<6000, 0, 0>> }

\* the 10 channel values of the particle at position r: time is the
\* acquisition position, the channels the filter does not read are fixed
ChannelRow(r, p) == <<r, 2, p[1], p[2], p[3], 7, 8, 9, 11, 12>>

\* the first two words of each row as found in input files
LeadingChoices == { <<10, 0>>, <<0, 0>> }

BodySeqs == UNION { [1..n -> ParticleChoices] : n \in 0..MaxRows }

\* header, then 12 little-endian words per row
FileBytes(hdrcount, lead, ps) ==
    LeBytes(hdrcount, 4) \o
    MatrixBytes([r \in 1..Len(ps) |-> lead \o ChannelRow(r, ps[r])])

\* a file as generated, with its last byte cut off, or with one more byte
TailVariants(b) == { b, SubSeq(b, 1, Len(b) - 1), b \o <<7>> }

InputFiles ==
    { <<>>, <<1>>, <<1, 0, 0>> } \cup
    UNION { TailVariants(FileBytes(h, lead, ps)) :
                h \in 0..(MaxRows + 1), lead \in LeadingChoices, ps \in BodySeqs }

\* keyword arguments filter() is called with
FilterOptions ==
    { FilterDefaults,
      [FilterDefaults EXCEPT !.width = None],
      [FilterDefaults EXCEPT !.offset = None],
      [FilterDefaults EXCEPT !.origin = Some(RInt(6000))],
      [notch1 |-> Some(RInt(1)), notch2 |-> Some(RInt(1)), offset |-> Some(RInt(0)),
       origin |-> Some(RInt(0)), width |-> Some(Fr(1, 2))],
      [notch1 |-> Some(RInt(1)), notch2 |-> Some(RInt(2)), offset |-> Some(RInt(0)),
       origin |-> Some(RInt(6000)), width |-> Some(RInt(1))],
      [FilterDefaults EXCEPT !.offset = Some(Fr(-1, 2)), !.width = Some(RInt(1))] }

(***************************************************************************)
(* SpecEVT: one EVT object, constructed, filtered and written              *)
(***************************************************************************)
\* the variables of the batch run with sinks, at rest
SinkIdle ==
    /\ inputs = <<>> /\ wst = <<>> /\ wevt = <<>>
    /\ sopts = [db |-> FALSE, no_opp_db |-> FALSE, binary_dir |-> FALSE,
                gz_binary |-> FALSE]
    /\ db = EmptyDb /\ binary_root = {} /\ db_calls = <<>>

\* the variables of the validation command, at rest
ValIdle ==
    /\ vfiles = <<>>
    /\ vflags = [no_header |-> FALSE, opp |-> FALSE, no_summary |-> FALSE,
                 verbose |-> FALSE]
    /\ vpc = "idle" /\ vidx = 0 /\ n_ok = 0 /\ n_bad = 0
    /\ header_printed = FALSE /\ printed = <<>>

\* the variables of the worker, at rest
WorkerIdle ==
    /\ wpc = "idle" /\ wopts = FilterDefaults /\ tries = 0
    /\ attempts = <<>> /\ slept = <<>> /\ fileobj = None
    /\ result = [ok |-> FALSE, evtcnt |-> 0, oppcnt |-> 0, path |-> 0]
    /\ wraised = ""

\* the variables of the batch run, at rest
BatchIdle ==
    /\ files = 0 /\ every = 10 /\ cpus = 1 /\ s3 = FALSE
    /\ s3_missing = {} /\ sigint = {}
    /\ nextin = 1 /\ running = {} /\ outq = <<>>
    /\ pc = "done" /\ completed = 0
    /\ evtcnt = 0 /\ oppcnt = 0 /\ files_ok = 0
    /\ last = 0 /\ evtcnt_block = 0 /\ oppcnt_block = 0
    /\ reports = <<>> /\ consumed = <<>>

EvtInit ==
    /\ BatchIdle
    /\ WorkerIdle
    /\ SinkIdle
    /\ ValIdle
    /\ x \in InputFiles
    /\ read_data = TRUE
    /\ epc = "new"
    /\ obj = EVTNew(EvtPath, x)
    /\ err = ""
    /\ opts = FilterDefaults
    /\ prev = EVTNew(EvtPath, x)
    /\ out = None

\* evt = EVT(path=..., fileobj=..., read_data=rd)
EvtConstruct(rd) ==
    /\ epc = "new"
    /\ LET r == EVT(EvtPath, x, rd)
       IN  /\ obj' = r.self
           /\ err' = r.raised
           /\ epc' = IF r.raised = "" THEN "ready" ELSE "failed"
           /\ prev' = r.self
    /\ read_data' = rd
    /\ UNCHANGED <<sinkVars, valVars, poolVars, loopVars, workerVars, x, opts, out>>

\* evt.filter(**o)
EvtFilter(o) ==
    /\ epc \in {"ready", "filtered"}
    /\ LET r == filter(obj, o)
       IN  /\ obj' = r.self
           /\ err' = r.raised
    /\ prev' = obj
    /\ opts' = o
    /\ epc' = "filtered"
    /\ UNCHANGED <<sinkVars, valVars, poolVars, loopVars, workerVars, x, read_data, out>>

\* evt.write_opp_binary(outfile)
EvtWrite ==
    /\ epc \in {"ready", "filtered"}
    /\ err = ""
    /\ out' = write_opp_binary(obj)
    /\ epc' = "written"
    /\ UNCHANGED <<sinkVars, valVars, poolVars, loopVars, workerVars, x, read_data, obj, err, opts, prev>>

EvtNext ==
    \/ \E rd \in BOOLEAN : EvtConstruct(rd)
    \/ \E o \in FilterOptions : EvtFilter(o)
    \/ EvtWrite

SpecEVT == EvtInit /\ [][EvtNext]_vars

\* the variables of the EVT object, at rest
EvtIdle ==
    /\ x = <<>> /\ read_data = TRUE /\ epc = "idle"
    /\ obj = EVTNew(EvtPath, <<>>) /\ err = ""
    /\ opts = FilterDefaults /\ prev = EVTNew(EvtPath, <<>>) /\ out = None

(***************************************************************************)
(* Properties of the codec and the filter (SpecEVT)                        *)
(***************************************************************************)
\* the header count of a byte string with at least 4 bytes
HeaderCount(b) == LeUint(SubSeq(b, 1, 4))

\* the 24 bytes of row idx of the body of b
XRowBytes(b, idx) == SubSeq(b, 4 + (idx - 1) * 24 + 1, 4 + idx * 24)

HasData(o) == ~IsNone(o.evt) /\ o.evtcnt > 0

\* the constructor has read (or failed to read) the file
Decoded == epc \in {"ready", "failed"} /\ read_data

\* when decode is said to fail
DecodeMustFail(b) ==
    \/ Len(b) = 0
    \/ Len(b) < 4
    \/ HeaderCount(b) = 0
    \/ Len(b) - 4 # HeaderCount(b) * 12 * 2

\* C6: decode fails with a format error exactly when the input is empty, has
\* fewer than 4 header bytes, has a zero header count, or the bytes after the
\* header are not exactly count*12*2 (fewer or more); otherwise it succeeds
\* and yields exactly count rows.
C6_DecodeFailsExactly ==
    Decoded =>
        /\ (err = "EVTFileError") <=> DecodeMustFail(x)
        /\ (err = "") => (obj.evtcnt = HeaderCount(x) /\ Len(Val(obj.evt)) = HeaderCount(x))

\* what read_evt() does: bytes beyond the count*24 it reads are never looked at
DecodeFailsWhenShort(b) ==
    \/ Len(b) < 4
    \/ HeaderCount(b) = 0
    \/ Len(b) - 4 < HeaderCount(b) * 12 * 2

C6_DecodeFailsOnShortOnly ==
    Decoded =>
        /\ (err = "EVTFileError") <=> DecodeFailsWhenShort(x)
        /\ (err = "") => (obj.evtcnt = HeaderCount(x) /\ Len(Val(obj.evt)) = HeaderCount(x))

C6_TrailingBytesAccepted ==
    Decoded /\ err = "" /\ Len(x) - 4 > HeaderCount(x) * 12 * 2

\* The generated files carry the acquisition position of each row in its time
\* column, so a retained row names the row of x it came from.
RetainedIdx(k) == Val(obj.opp)[k][ColTime]

RECURSIVE ConcatRows(_, _)
ConcatRows(RowOf(_), k) == IF k = 0 THEN <<>> ELSE ConcatRows(RowOf, k - 1) \o RowOf(k)

Written == epc = "written" /\ ~IsNone(obj.opp)

\* C7 as stated: for any retained subset the file written is the header
\* retained_count followed by, for each retained row in original order, the
\* same 12 words the row had in x, so that retaining all rows reproduces x.
C7_RoundTripAnyInput ==
    Written =>
        /\ ~IsNone(out)
        /\ Val(out) = LeBytes(obj.oppcnt, 4) \o
                      ConcatRows(LAMBDA k : XRowBytes(x, RetainedIdx(k)), obj.oppcnt)
        /\ (obj.oppcnt = obj.evtcnt) => (Val(out) = x)

\* C7 (amended): for a non-empty retained subset the file written is the header
\* retained_count followed by, for each retained row in original order, the
\* words 10, 0 and the same 10 channel words the row had in x; when all rows
\* are retained and every row of x leads with 10, 0 the file written equals
\* the first 4 + 24*count bytes of x.
C7_RoundTrip ==
    (Written /\ obj.oppcnt > 0) =>
        /\ ~IsNone(out)
        /\ Val(out) = LeBytes(obj.oppcnt, 4) \o
                      ConcatRows(LAMBDA k : <<10, 0, 0, 0>> \o
                                     SubSeq(XRowBytes(x, RetainedIdx(k)), 5, 24),
                                 obj.oppcnt)
        /\ \A k \in 1..(obj.oppcnt - 1) : RetainedIdx(k) < RetainedIdx(k + 1)
        /\ ( /\ obj.oppcnt = obj.evtcnt
             /\ \A r \in 1..obj.evtcnt : SubSeq(XRowBytes(x, r), 1, 4) = <<10, 0, 0, 0>> )
           => (Val(out) = SubSeq(x, 1, 4 + 24 * obj.evtcnt))

C7_Witness ==
    /\ Written
    /\ ~IsNone(out)
    /\ obj.oppcnt > 0
    /\ obj.oppcnt < obj.evtcnt
    /\ RetainedIdx(1) > 1

C7_FullRoundTripReached ==
    /\ Written
    /\ obj.evtcnt = 2
    /\ obj.oppcnt = 2
    /\ out = Some(x)

\* C8: after filter, 0 <= retained_count <= total_count and 0 <= ratio <= 1,
\* ratio = retained_count / total_count, and ratio = 0 when total_count = 0.
C8_CountsAndRatio ==
    (epc \in {"filtered", "written"}) =>
        /\ 0 <= obj.oppcnt
        /\ obj.oppcnt <= obj.evtcnt
        /\ ~IsNone(obj.opp) => obj.oppcnt = Len(Val(obj.opp))
        /\ ~IsNaN(obj.opp_evt_ratio)
        /\ 0 <= obj.opp_evt_ratio.n
        /\ obj.opp_evt_ratio.n <= obj.opp_evt_ratio.d
        /\ (obj.evtcnt > 0) => (obj.opp_evt_ratio.n * obj.evtcnt = obj.oppcnt * obj.opp_evt_ratio.d)
        /\ (obj.evtcnt = 0) => (obj.opp_evt_ratio.n = 0)

C8_Witness ==
    /\ epc = "filtered"
    /\ err = ""
    /\ obj.oppcnt > 0
    /\ obj.oppcnt < obj.evtcnt

C8_ZeroTotalReached ==
    /\ epc = "filtered"
    /\ obj.evtcnt = 0

\* m is the median of the values s as pandas computes it: an element with
\* fewer than half of the values on either side, or the mean of the two
\* middle values when these differ; NaN when there is no value
IsMedian(m, s) ==
    LET n == Len(s)
        lt == {i \in 1..n : RLt(RInt(s[i]), m)}
        gt == {i \in 1..n : RGt(RInt(s[i]), m)}
        eq == {i \in 1..n : REq(RInt(s[i]), m)}
    IN  IF n = 0 THEN IsNaN(m)
        ELSE /\ ~IsNaN(m)
             /\ \/ /\ eq # {}
                   /\ 2 * Cardinality(lt) < n
                   /\ 2 * Cardinality(gt) < n
                \/ /\ eq = {}
                   /\ 2 * Cardinality(lt) = n
                   /\ 2 * Cardinality(gt) = n
                   /\ \E i \in lt, j \in gt :
                        /\ \A k \in lt : s[k] <= s[i]
                        /\ \A k \in gt : s[k] >= s[j]
                        /\ REq(m, Fr(s[i] + s[j], 2))

D2MinusD1(rows) == [r \in 1..Len(rows) |-> rows[r][ColD2] - rows[r][ColD1]]

\* filter() has run to its end with no origin supplied
OriginComputed ==
    /\ epc = "filtered"
    /\ err = ""
    /\ HasData(obj)
    /\ IsNone(opts.origin)

MissingWidthOrOffset == IsNone(opts.width) \/ IsNone(opts.offset)

C10_NoDataReached ==
    /\ epc = "filtered"
    /\ MissingWidthOrOffset
    /\ ~HasData(prev)


\* filter() has run to its end on an object that holds data
FilterRan ==
    /\ epc = "filtered"
    /\ err = ""
    /\ HasData(prev)
    /\ ~MissingWidthOrOffset

AllSupplied ==
    /\ ~IsNone(opts.notch1) /\ ~IsNone(opts.notch2) /\ ~IsNone(opts.origin)
    /\ ~IsNone(opts.width) /\ ~IsNone(opts.offset)

\* the two alignment conditions on a row, for an origin and a width
InBand(r, origin, width) ==
    /\ RLt(RAdd(RInt(r[ColD1]), origin), RAdd(RInt(r[ColD2]), RMul(width, RInt(10000))))
    /\ RLt(RInt(r[ColD2]),
           RAdd(RAdd(RInt(r[ColD1]), origin), RMul(width, RInt(10000))))

\* the two focus conditions on a row, for the notches and an offset
AboveNotches(r, notch1, notch2, offset) ==
    /\ RGt(RInt(r[ColFscSmall]),
           RSub(RMul(RInt(r[ColD1]), notch1), RMul(offset, RInt(10000))))
    /\ RGt(RInt(r[ColFscSmall]),
           RSub(RMul(RInt(r[ColD2]), notch2), RMul(offset, RInt(10000))))

\* the five conditions of C15 on a row, with the supplied parameters
Keeps(r) ==
    /\ r[ColFscSmall] > 1
    /\ InBand(r, Val(opts.origin), Val(opts.width))
    /\ AboveNotches(r, Val(opts.notch1), Val(opts.notch2), Val(opts.offset))

\* the positions in the input matrix of the retained rows (the time column
\* of the generated files holds the acquisition position)
RetainedPositions == { Val(obj.opp)[k][ColTime] : k \in 1..obj.oppcnt }

\* C15: with notch1, notch2, width, offset and origin all supplied, filter
\* retains exactly the rows with fsc_small > 1 that satisfy the two alignment
\* and the two focus inequalities; the retained rows are rows of the input in
\* the same relative order with their 10 values unchanged, and the input
\* matrix is not modified.
C15_RetainedRows ==
    (FilterRan /\ AllSupplied) =>
        /\ obj.evt = prev.evt
        /\ obj.evtcnt = prev.evtcnt
        /\ obj.oppcnt = Len(Val(obj.opp))
        /\ \A k \in 1..obj.oppcnt :
              /\ RetainedIdx(k) \in 1..prev.evtcnt
              /\ Val(obj.opp)[k] = Val(prev.evt)[RetainedIdx(k)]
        /\ \A k \in 1..(obj.oppcnt - 1) : RetainedIdx(k) < RetainedIdx(k + 1)
        /\ \A i \in 1..prev.evtcnt :
              (i \in RetainedPositions) <=> Keeps(Val(prev.evt)[i])

\* a row kept, and rows dropped for fsc_small, for alignment and for focus
C15_Witness ==
    /\ FilterRan /\ AllSupplied
    /\ obj.evtcnt >= 2
    /\ obj.oppcnt >= 1
    /\ \E i \in 1..prev.evtcnt :
          LET r == Val(prev.evt)[i]
          IN  /\ r[ColFscSmall] > 1
              /\ InBand(r, Val(opts.origin), Val(opts.width))
              /\ ~AboveNotches(r, Val(opts.notch1), Val(opts.notch2), Val(opts.offset))
              /\ RGt(RInt(r[ColFscSmall]),
                     RSub(RMul(RInt(r[ColD1]), Val(opts.notch1)),
                          RMul(Val(opts.offset), RInt(10000))))

\* a row with fsc_small > 1 dropped for alignment alone
C15_OutOfBandReached ==
    /\ FilterRan /\ AllSupplied
    /\ \E i \in 1..prev.evtcnt :
          /\ Val(prev.evt)[i][ColFscSmall] > 1
          /\ ~InBand(Val(prev.evt)[i], Val(opts.origin), Val(opts.width))

\* the aligned rows of the last filter() call, from the effective origin and
\* width it recorded
AlignedNow ==
    SelectSeq(Val(prev.evt),
              LAMBDA r : r[ColFscSmall] > 1 /\ InBand(r, Val(obj.origin), Val(obj.width)))

\* m is the minimum of column col among the aligned rows at the maximum
\* fsc_small, and mx the maximum fsc_small among the aligned rows at col = m
NotchPair(rows, col, m, mx) ==
    LET top == { i \in 1..Len(rows) :
                    \A j \in 1..Len(rows) : rows[j][ColFscSmall] <= rows[i][ColFscSmall] }
        atm == { i \in 1..Len(rows) : rows[i][col] = m }
    IN  /\ \E i \in top : rows[i][col] = m
        /\ \A i \in top : rows[i][col] >= m
        /\ \E i \in atm : rows[i][ColFscSmall] = mx
        /\ \A i \in atm : rows[i][ColFscSmall] <= mx

\* the notch recorded for column col is mx / (m + 10000) for every pair
\* (m, mx) the definition admits, and there is such a pair
NotchIs(notch, rows, col) ==
    /\ \E i, j \in 1..Len(rows) : NotchPair(rows, col, rows[i][col], rows[j][ColFscSmall])
    /\ \A i, j \in 1..Len(rows) :
          NotchPair(rows, col, rows[i][col], rows[j][ColFscSmall]) =>
              REq(notch, Fr(rows[j][ColFscSmall], rows[i][col] + 10000))

\* C16: when notch1 is not supplied and at least one row is aligned, the
\* effective notch1 is max1 / (min1 + 10000), min1 the least D1 among the
\* aligned rows at the greatest fsc_small and max1 the greatest fsc_small among
\* the aligned rows with D1 = min1; notch2 likewise from D2; the value does not
\* depend on which of several tying rows is taken.
C16_DerivedNotch ==
    (FilterRan /\ AlignedNow # <<>>) =>
        /\ IsNone(opts.notch1) => NotchIs(Val(obj.notch1), AlignedNow, ColD1)
        /\ IsNone(opts.notch2) => NotchIs(Val(obj.notch2), AlignedNow, ColD2)

\* two aligned rows tie at the greatest fsc_small with different D1
C16_Witness ==
    /\ FilterRan
    /\ IsNone(opts.notch1) /\ IsNone(opts.notch2)
    /\ Len(AlignedNow) >= 2
    /\ AlignedNow[1][ColFscSmall] = AlignedNow[2][ColFscSmall]
    /\ AlignedNow[1][ColD1] # AlignedNow[2][ColD1]
    /\ REq(Val(obj.notch1), Fr(9, 10))

\* no row is aligned: the derived notches are not numbers
C16_NoAlignedReached ==
    /\ FilterRan
    /\ IsNone(opts.notch1)
    /\ AlignedNow = <<>>
    /\ IsNaN(Val(obj.notch1))

(***************************************************************************)
(* The worker: do_work / filter_one_file                                   *)
(***************************************************************************)
\* contents of the input files of a batch: two rows of which one is focused,
\* an empty file, one row of noise, two focused rows
BatchSamples ==
    << FileBytes(2, <<10, 0>>, << <<0, 0, 9000>>, <<0, 6000, 1>> >>),
       <<>>,
       FileBytes(1, <<10, 0>>, << <<0, 6000, 1>> >>),
       FileBytes(2, <<10, 0>>, << <<0, 0, 9000>>, <<6000, 6000, 9000>> >>) >>

\* file f of a batch
BatchFile(f) == BatchSamples[((f - 1) % Len(BatchSamples)) + 1]

\* the result dictionary filter_one_file() starts from
InitialResult(f) == [ok |-> FALSE, evtcnt |-> 0, oppcnt |-> 0, path |-> f]

\* filter_one_file from "evt = EVT(path=evt_file, fileobj=fileobj)" on, for
\* a file f holding the bytes data: the exception that leaves it ("" if none)
\* and the result it returns
after_download(f, data, o) ==
    LET c == EVT(f, data, TRUE)
    IN  IF c.raised # ""
        THEN [raised |-> "", result |-> InitialResult(f)]
        ELSE LET fr == filter(c.self, o)
             IN  IF fr.raised # ""
                 THEN [raised |-> fr.raised, result |-> InitialResult(f)]
                 ELSE [raised |-> "",
                       result |-> [ok |-> TRUE,
                                   evtcnt |-> fr.self.evtcnt,
                                   oppcnt |-> fr.self.oppcnt,
                                   path |-> f]]

\* filter_one_file(file=f, s3=use_s3, filter_options=o).  missing: the files
\* whose download_s3_file_memory() raises after its last attempt
filter_one_file(f, use_s3, missing, o) ==
    IF use_s3 /\ f \in missing
    THEN [raised |-> "S3Error", result |-> InitialResult(f)]
    ELSE after_download(f, BatchFile(f), o)

\* do_work(options): what the pool gets back from the worker: a result
\* dictionary, an exception, or None after a KeyboardInterrupt
do_work(f, use_s3, missing, interrupted, o) ==
    IF f \in interrupted
    THEN [kind |-> "None", res |-> InitialResult(f)]
    ELSE LET r == filter_one_file(f, use_s3, missing, o)
         IN  IF r.raised # ""
             THEN [kind |-> "exception", res |-> r.result]
             ELSE [kind |-> "result", res |-> r.result]

(***************************************************************************)
(* Spec: filter_files over a pool of workers                               *)
(***************************************************************************)
EveryChoices == {10, 30, 50}
CpuChoices == {1, 2}

FaultSets(n) == {m \in SUBSET (1..n) : Cardinality(m) <= MaxFaults}

\* int(perc / every) * every with perc = float(done) / len(files) * 100
Milestone(done, n, ev) == ((done * 100) \div (n * ev)) * ev

\* if milestone > last
CrossedOrEqual(milestone, lst) == milestone >= lst
Crossed(milestone, lst) == milestone > lst

\* files_ok += 1 if res["ok"] else 0
OkIncrementAlways(ok) == 1
OkIncrement(ok) == IF ok THEN 1 ELSE 0

\* if evtcnt_block > 0: total += block
FlushBlockDropped(total, block, evt_block) == total
FlushBlock(total, block, evt_block) == IF evt_block > 0 THEN total + block ELSE total

Init ==
    /\ EvtIdle
    /\ WorkerIdle
    /\ SinkIdle
    /\ ValIdle
    /\ files \in 0..MaxFiles
    /\ every \in EveryChoices
    /\ cpus \in CpuChoices
    /\ s3 \in (IF files <= MaxFaultyBatch THEN BOOLEAN ELSE {FALSE})
    /\ s3_missing \in (IF s3 THEN FaultSets(files) ELSE {{}})
    /\ sigint \in (IF files <= MaxFaultyBatch THEN FaultSets(files) ELSE {{}})
    /\ Cardinality(s3_missing \cup sigint) <= MaxFaults
    /\ running = 1..Min2(cpus, files)
    /\ nextin = Min2(cpus, files) + 1
    /\ outq = <<>>
    /\ pc = IF files = 0 THEN "after" ELSE "loop"
    /\ completed = 0
    /\ evtcnt = 0 /\ oppcnt = 0 /\ files_ok = 0
    /\ last = 0 /\ evtcnt_block = 0 /\ oppcnt_block = 0
    /\ reports = <<>>
    /\ consumed = <<>>

\* a worker finishes do_work() on file f, puts what it returned on the
\* result queue and takes the next input, if any is left
WorkerDone(f) ==
    /\ pc = "loop"
    /\ f \in running
    /\ outq' = Append(outq, do_work(f, s3, s3_missing, sigint, FilterDefaults))
    /\ IF nextin <= files
       THEN /\ running' = (running \ {f}) \cup {nextin}
            /\ nextin' = nextin + 1
       ELSE /\ running' = running \ {f}
            /\ nextin' = nextin
    /\ UNCHANGED <<sinkVars, valVars, evtVars, loopVars, workerVars, files, every, cpus, s3, s3_missing, sigint>>

\* an exception reaches the loop: next() re-raises what the worker raised,
\* res["evtcnt"] raises TypeError on None
LoopRaises ==
    /\ pc = "loop"
    /\ outq # <<>>
    /\ Head(outq).kind # "result"
    /\ outq' = Tail(outq)
    /\ pc' = "aborted"
    /\ UNCHANGED <<sinkVars, valVars, evtVars, workerVars, files, every, cpus, s3, s3_missing, sigint, nextin, running>>
    /\ UNCHANGED <<completed, evtcnt, oppcnt, files_ok, last, evtcnt_block, oppcnt_block,
                   reports, consumed>>

\* one turn of "for i, res in enumerate(pool.imap_unordered(do_work, inputs))"
Consume ==
    /\ pc = "loop"
    /\ outq # <<>>
    /\ Head(outq).kind = "result"
    /\ LET res == Head(outq).res
           eb == evtcnt_block + res.evtcnt
           ob == oppcnt_block + res.oppcnt
           milestone == Milestone(completed + 1, files, every)
       IN  /\ files_ok' = files_ok + OkIncrement(res.ok)
           /\ consumed' = Append(consumed, res)
           /\ IF Crossed(milestone, last)
              THEN /\ evtcnt' = evtcnt + eb
                   /\ oppcnt' = oppcnt + ob
                   /\ reports' = Append(reports,
                         [done |-> completed + 1, milestone |-> milestone,
                          oppcnt_block |-> ob, evtcnt_block |-> eb])
                   /\ last' = milestone
                   /\ evtcnt_block' = 0
                   /\ oppcnt_block' = 0
              ELSE /\ evtcnt_block' = eb
                   /\ oppcnt_block' = ob
                   /\ UNCHANGED <<evtcnt, oppcnt, reports, last>>
    /\ outq' = Tail(outq)
    /\ completed' = completed + 1
    /\ pc' = IF completed + 1 = files THEN "after" ELSE "loop"
    /\ UNCHANGED <<sinkVars, valVars, evtVars, workerVars, files, every, cpus, s3, s3_missing, sigint, nextin, running>>

\* after the loop: the left-over block and the final report
Finish ==
    /\ pc = "after"
    /\ evtcnt' = FlushBlock(evtcnt, evtcnt_block, evtcnt_block)
    /\ oppcnt' = FlushBlock(oppcnt, oppcnt_block, evtcnt_block)
    /\ pc' = "done"
    /\ UNCHANGED <<sinkVars, valVars, evtVars, workerVars, poolVars, completed, files_ok, last, evtcnt_block, oppcnt_block,
                   reports, consumed>>

Next ==
    \/ \E f \in 1..MaxFiles : WorkerDone(f)
    \/ LoopRaises
    \/ Consume
    \/ Finish

Spec == Init /\ [][Next]_vars

(***************************************************************************)
(* SpecWorker: one call of filter_one_file, the download attempt by attempt *)
(***************************************************************************)
\* download_s3_file_memory(key_str, retries=5)
retries == 5

\* if tries == retries: raise
GiveUpLate(t, r) == t > r
GiveUp(t, r) == t = r

\* the whole seconds of sleep = (2**(tries-1)) + random.random()
Backoff(t) == 2 ^ (t - 1)

WorkerFiles ==
    { BatchSamples[k] : k \in 1..Len(BatchSamples) } \cup
    { FileBytes(2, <<10, 0>>, << <<0, 0, 9000>> >>),
      FileBytes(1, <<0, 0>>, << <<6000, 6000, 9000>>, <<0, 0, 9000>> >>) }

WorkerOptions == { FilterDefaults, [FilterDefaults EXCEPT !.width = None] }

WorkerInit ==
    /\ BatchIdle
    /\ SinkIdle
    /\ ValIdle
    /\ x \in WorkerFiles
    /\ read_data = TRUE /\ epc = "idle"
    /\ obj = EVTNew(EvtPath, <<>>) /\ err = ""
    /\ opts = FilterDefaults /\ prev = EVTNew(EvtPath, <<>>) /\ out = None
    /\ wpc = "start"
    /\ wopts \in WorkerOptions
    /\ tries = 0
    /\ attempts = <<>>
    /\ slept = <<>>
    /\ fileobj = None
    /\ result = InitialResult(0)
    /\ wraised = ""

\* filter_one_file up to "if o["s3"]:"; use_s3 is the s3 option of the call
WorkerStart(use_s3) ==
    /\ wpc = "start"
    /\ wpc' = IF use_s3 THEN "fetch" ELSE "evt"
    /\ s3' = use_s3
    /\ UNCHANGED <<sinkVars, valVars, evtVars, loopVars>>
    /\ UNCHANGED <<files, every, cpus, s3_missing, sigint, nextin, running, outq>>
    /\ UNCHANGED <<wopts, tries, attempts, slept, fileobj, result, wraised>>

\* one turn of the loop of download_s3_file_memory: the attempt succeeds
\* (got) and the bytes are returned, or fails and is counted
FetchAttempt(got) ==
    /\ wpc = "fetch"
    /\ Len(attempts) < MaxCalls
    /\ attempts' = Append(attempts, got)
    /\ IF got
       THEN /\ fileobj' = Some(x)
            /\ wpc' = "evt"
            /\ UNCHANGED <<tries, wraised>>
       ELSE /\ tries' = tries + 1
            /\ IF GiveUp(tries + 1, retries)
               THEN wpc' = "raised" /\ wraised' = "S3Error"
               ELSE wpc' = "sleep" /\ wraised' = wraised
            /\ UNCHANGED fileobj
    /\ UNCHANGED <<sinkVars, valVars, evtVars, poolVars, loopVars, wopts, slept, result>>

\* time.sleep(sleep)
FetchSleep ==
    /\ wpc = "sleep"
    /\ slept' = Append(slept, Backoff(tries))
    /\ wpc' = "fetch"
    /\ UNCHANGED <<sinkVars, valVars, evtVars, poolVars, loopVars>>
    /\ UNCHANGED <<wopts, tries, attempts, fileobj, result, wraised>>

\* the rest of filter_one_file
WorkerRun ==
    /\ wpc = "evt"
    /\ LET r == after_download(0, x, wopts)
       IN  /\ result' = r.result
           /\ wraised' = r.raised
           /\ wpc' = IF r.raised = "" THEN "returned" ELSE "raised"
    /\ UNCHANGED <<sinkVars, valVars, evtVars, poolVars, loopVars, wopts, tries, attempts, slept, fileobj>>

WorkerNext ==
    \/ \E use_s3 \in BOOLEAN : WorkerStart(use_s3)
    \/ \E got \in BOOLEAN : FetchAttempt(got)
    \/ FetchSleep
    \/ WorkerRun

SpecWorker == WorkerInit /\ [][WorkerNext]_vars

(***************************************************************************)
(* SpecSink: filter_files with sinks, the workers taken step by step       *)
(***************************************************************************)
Cruise == "SCOPE_1"

\* the input files of a batch with sinks: two retained rows, no retained
\* row, one retained row and no julian day directory, an unreadable file
SinkSamples ==
    { [path |-> PathOf("SCOPE_1", "2014_185", "2014-07-04T00-00-02+00-00"),
       data |-> BatchSamples[4]],
      [path |-> PathOf("SCOPE_1", "2014_186", "2014-07-05T00-03-02+00-00"),
       data |-> BatchSamples[3]],
      [path |-> PathOf("", "", "37.evt"),
       data |-> BatchSamples[1]],
      [path |-> PathOf("SCOPE_1", "2014_187", "2014-07-06T00-06-02+00-00"),
       data |-> BatchSamples[2]] }

\* the sink options of a run; main() requires db or binary_dir
SinkOptions ==
    { o \in [db : BOOLEAN, no_opp_db : BOOLEAN, binary_dir : BOOLEAN,
             gz_binary : BOOLEAN] :
        /\ o.db \/ o.binary_dir
        /\ o.no_opp_db => o.db
        /\ o.gz_binary => o.binary_dir }

SinkInit ==
    /\ EvtIdle
    /\ WorkerIdle
    /\ ValIdle
    /\ inputs \in UNION { [1..n -> SinkSamples] : n \in 1..MaxSinkFiles }
    /\ files = Len(inputs)
    /\ every = 50
    /\ cpus \in CpuChoices
    /\ s3 = FALSE /\ s3_missing = {} /\ sigint = {}
    /\ running = 1..Min2(cpus, files)
    /\ nextin = Min2(cpus, files) + 1
    /\ outq = <<>>
    /\ pc = "loop"
    /\ completed = 0
    /\ evtcnt = 0 /\ oppcnt = 0 /\ files_ok = 0
    /\ last = 0 /\ evtcnt_block = 0 /\ oppcnt_block = 0
    /\ reports = <<>>
    /\ consumed = <<>>
    /\ sopts \in SinkOptions
    /\ wst = [f \in 1..files |-> "queued"]
    /\ wevt = [f \in 1..files |-> EVTNew(inputs[f].path, inputs[f].data)]
    /\ db = EmptyDb
    /\ binary_root = {}
    /\ db_calls = <<>>

\* do_work() of file f ends: what it returned or raised goes to the result
\* queue and the worker takes the next input, if any is left
Deliver(f, outcome) ==
    /\ outq' = Append(outq, outcome)
    /\ IF nextin <= files
       THEN /\ running' = (running \ {f}) \cup {nextin}
            /\ nextin' = nextin + 1
       ELSE /\ running' = running \ {f}
            /\ nextin' = nextin

\* the worker of file f goes on inside filter_one_file
GoOn == UNCHANGED <<outq, running, nextin>>

\* the worker of file f is at step st of filter_one_file
At(f, st) ==
    /\ pc = "loop"
    /\ f \in running
    /\ wst[f] = st

\* the result filter_one_file returns after the sinks
OkResult(f) ==
    [ok |-> TRUE, evtcnt |-> wevt[f].evtcnt, oppcnt |-> wevt[f].oppcnt, path |-> f]

\* filter_one_file up to the sinks: EVT(path=evt_file) and evt.filter()
SinkFilter(f) ==
    /\ At(f, "queued")
    /\ LET c == EVT(inputs[f].path, inputs[f].data, TRUE)
           fr == filter(c.self, FilterDefaults)
       IN  IF c.raised # ""
           THEN /\ wst' = [wst EXCEPT ![f] = "returned"]
                /\ Deliver(f, [kind |-> "result", res |-> InitialResult(f)])
                /\ UNCHANGED wevt
           ELSE IF fr.raised # ""
           THEN /\ wst' = [wst EXCEPT ![f] = "raised"]
                /\ Deliver(f, [kind |-> "exception", res |-> InitialResult(f)])
                /\ UNCHANGED wevt
           ELSE /\ wst' = [wst EXCEPT ![f] = "filtered"]
                /\ wevt' = [wevt EXCEPT ![f] = fr.self]
                /\ GoOn
    /\ UNCHANGED <<evtVars, workerVars, loopVars, valVars>>
    /\ UNCHANGED <<files, every, cpus, s3, s3_missing, sigint>>
    /\ UNCHANGED <<inputs, sopts, db, binary_root, db_calls>>

\* one insert method of save_opp_to_db has run with outcome r: the database
\* and the log of statements after it, and where the worker goes
AfterInsert(f, table, r, nextst) ==
    /\ db' = r.db
    /\ db_calls' = IF r.sent
                   THEN Append(db_calls, [file |-> f, table |-> table,
                                          ok |-> r.raised = ""])
                   ELSE db_calls
    /\ IF SaveRaises(r.raised) # ""
       THEN /\ wst' = [wst EXCEPT ![f] = "raised"]
            /\ Deliver(f, [kind |-> "exception", res |-> InitialResult(f)])
       ELSE /\ wst' = [wst EXCEPT ![f] = nextst]
            /\ GoOn

\* evt.save_opp_to_db(), first half: "if not no_opp: self.insert_opp_sqlite3()"
SinkInsertOpp(f, fault) ==
    /\ At(f, "filtered")
    /\ IF sopts.db /\ wevt[f].oppcnt # 0 /\ ~sopts.no_opp_db
       THEN AfterInsert(f, "opp", insert_opp_sqlite3(wevt[f], Cruise, db, fault), "opp")
       ELSE /\ wst' = [wst EXCEPT ![f] = "opp"]
            /\ GoOn
            /\ UNCHANGED <<db, db_calls>>
    /\ UNCHANGED <<evtVars, workerVars, loopVars, valVars>>
    /\ UNCHANGED <<files, every, cpus, s3, s3_missing, sigint>>
    /\ UNCHANGED <<inputs, sopts, wevt, binary_root>>

\* evt.save_opp_to_db(), second half: "self.insert_filter_sqlite3()"
SinkInsertFilter(f, fault) ==
    /\ At(f, "opp")
    /\ IF sopts.db /\ wevt[f].oppcnt # 0
       THEN AfterInsert(f, "filter",
                        insert_filter_sqlite3(wevt[f], Cruise, db, fault), "saved")
       ELSE /\ wst' = [wst EXCEPT ![f] = "saved"]
            /\ GoOn
            /\ UNCHANGED <<db, db_calls>>
    /\ UNCHANGED <<evtVars, workerVars, loopVars, valVars>>
    /\ UNCHANGED <<files, every, cpus, s3, s3_missing, sigint>>
    /\ UNCHANGED <<inputs, sopts, wevt, binary_root>>

\* a directory or a file at or under binary_dir, and the file whose worker
\* created it
Entry(kind, path, content, f) ==
    [kind |-> kind, path |-> path, content |-> content, by |-> f]

Exists(root, kind, path) == \E e \in root : e.kind = kind /\ e.path = path

\* mkdir_p(os.path.join(binary_dir, path)): os.makedirs creates the directory
\* and its missing parents, binary_dir itself included
mkdir_p(root, path, f) ==
    root \cup { Entry("dir", SubSeq(path, 1, n), None, f) :
                  n \in { m \in 0..Len(path) : ~Exists(root, "dir", SubSeq(path, 1, m)) } }

\* open(outfile, "wb") and the writes: the file is created or replaced
WriteFile(root, path, content, f) ==
    { e \in root : ~(e.kind = "file" /\ e.path = path) }
        \cup { Entry("file", path, content, f) }

\* the binary_dir branch of filter_one_file, up to mkdir_p(outdir)
SinkMkdir(f) ==
    /\ At(f, "saved")
    /\ binary_root' = IF sopts.binary_dir
                      THEN mkdir_p(binary_root, Dirname(get_julian_path(wevt[f])), f)
                      ELSE binary_root
    /\ wst' = [wst EXCEPT ![f] = "outdir"]
    /\ GoOn
    /\ UNCHANGED <<evtVars, workerVars, loopVars, valVars>>
    /\ UNCHANGED <<files, every, cpus, s3, s3_missing, sigint>>
    /\ UNCHANGED <<inputs, sopts, wevt, db, db_calls>>

\* evt.write_opp_binary(outfile) and the return of filter_one_file
SinkWrite(f) ==
    /\ At(f, "outdir")
    /\ binary_root' = IF sopts.binary_dir /\ ~IsNone(OutFile(wevt[f], sopts.gz_binary))
                      THEN WriteFile(binary_root, get_julian_path(wevt[f]),
                                     OutFile(wevt[f], sopts.gz_binary), f)
                      ELSE binary_root
    /\ wst' = [wst EXCEPT ![f] = "returned"]
    /\ Deliver(f, [kind |-> "result", res |-> OkResult(f)])
    /\ UNCHANGED <<evtVars, workerVars, loopVars, valVars>>
    /\ UNCHANGED <<files, every, cpus, s3, s3_missing, sigint>>
    /\ UNCHANGED <<inputs, sopts, wevt, db, db_calls>>

SinkNext ==
    \/ \E f \in 1..MaxSinkFiles : SinkFilter(f)
    \/ \E f \in 1..MaxSinkFiles, fault \in BOOLEAN : SinkInsertOpp(f, fault)
    \/ \E f \in 1..MaxSinkFiles, fault \in BOOLEAN : SinkInsertFilter(f, fault)
    \/ \E f \in 1..MaxSinkFiles : SinkMkdir(f)
    \/ \E f \in 1..MaxSinkFiles : SinkWrite(f)
    \/ LoopRaises
    \/ Consume
    \/ Finish

SpecSink == SinkInit /\ [][SinkNext]_vars

(***************************************************************************)
(* SpecValidate: the validation command evt_cmd                            *)
(***************************************************************************)
\* the files the command is run on: what the name looks like ("evt", "opp"
\* or "other") and the bytes of the file
ValSamples ==
    { [name |-> "2014_185/2014-07-04T00-00-02+00-00", looks |-> "evt",
       data |-> FileBytes(2, <<10, 0>>, << <<0, 0, 9000>>, <<0, 6000, 1>> >>)],
      [name |-> "2014_185/2014-07-04T00-03-02+00-00", looks |-> "evt",
       data |-> FileBytes(2, <<10, 0>>, << <<0, 0, 9000>> >>)],
      [name |-> "2014_185/notes.txt", looks |-> "other",
       data |-> FileBytes(1, <<10, 0>>, << <<0, 0, 9000>> >>)],
      [name |-> "2014_185/2014-07-04T00-00-02+00-00.opp", looks |-> "opp",
       data |-> FileBytes(1, <<10, 0>>, << <<0, 0, 9000>> >>)] }

ValFlags == [no_header : BOOLEAN, opp : BOOLEAN, no_summary : BOOLEAN, verbose : BOOLEAN]

\* seaflowfile.SeaFlowFile(evt_file).is_evt / .is_opp
is_evt(file) == file.looks = "evt"
is_opp(file) == file.looks = "opp"

\* fileio.read_evt_labview / fileio.read_opp_labview: the FileError raised
\* ("" for none) and the number of rows of the data frame
read_labview(file) ==
    LET b == file.data
    IN  IF Len(b) = 0 THEN [raised |-> "File is empty", rows |-> 0]
        ELSE IF Len(b) < 4 THEN [raised |-> "File has invalid particle count header", rows |-> 0]
        ELSE IF LeUint(SubSeq(b, 1, 4)) = 0
             THEN [raised |-> "File has no particle data", rows |-> 0]
        ELSE IF Len(b) - 4 # LeUint(SubSeq(b, 1, 4)) * FileCols * 2
             THEN [raised |-> "File has incorrect number of data bytes", rows |-> 0]
        ELSE [raised |-> "", rows |-> LeUint(SubSeq(b, 1, 4))]

\* str() of a row count
Str(n) == << "0", "1", "2", "3", "4", "5" >>[n + 1]

\* the status of one file: the if / elif / else of the loop body
StatusIgnoringName(opp, file) ==
    IF read_labview(file).raised # "" THEN read_labview(file).raised ELSE "OK"
StatusOf(opp, file) ==
    IF ~opp /\ ~is_evt(file) THEN "Filename does not look like an EVT file"
    ELSE IF opp /\ ~is_opp(file) THEN "Filename does not look like an OPP file"
    ELSE IF read_labview(file).raised # "" THEN read_labview(file).raised
    ELSE "OK"

\* "if not header_printed and not no_header"
HeaderDueEveryTime(printed_already, no_header) == ~no_header
HeaderDue(printed_already, no_header) == ~printed_already /\ ~no_header

\* what print('\t'.join([...])) adds to the output
Line(kind, cols) == [kind |-> kind, cols |-> cols]

\* the lines one turn of the loop prints for a file with a status
FileLines(flags, printed_already, file, status) ==
    IF ~flags.verbose
    THEN IF status # "OK"
         THEN (IF HeaderDue(printed_already, flags.no_header)
               THEN << Line("header", <<"path", "status">>) >> ELSE <<>>)
              \o << Line("file", <<file.name, status>>) >>
         ELSE <<>>
    ELSE (IF HeaderDue(printed_already, flags.no_header)
          THEN << Line("header", <<"path", "status", "events">>) >> ELSE <<>>)
         \o (IF status # "OK"
             THEN << Line("file", <<file.name, status, "-">>) >>
             ELSE << Line("file", <<file.name, status, Str(read_labview(file).rows)>>) >>)

ValInit ==
    /\ EvtIdle
    /\ BatchIdle
    /\ WorkerIdle
    /\ SinkIdle
    /\ vfiles \in UNION { [1..n -> ValSamples] : n \in 0..MaxValFiles }
    /\ vflags \in ValFlags
    /\ vpc = "start"
    /\ vidx = 0
    /\ n_ok = 0 /\ n_bad = 0
    /\ header_printed = FALSE
    /\ printed = <<>>

\* "if not files: return", then header_printed = False and ok, bad = 0, 0
ValStart ==
    /\ vpc = "start"
    /\ vpc' = IF vfiles = <<>> THEN "done" ELSE "loop"
    /\ header_printed' = FALSE
    /\ n_ok' = 0 /\ n_bad' = 0
    /\ UNCHANGED <<evtVars, poolVars, loopVars, workerVars, sinkVars>>
    /\ UNCHANGED <<vfiles, vflags, vidx, printed>>

\* one turn of "for evt_file in files"
ValFile ==
    /\ vpc = "loop"
    /\ LET file == vfiles[vidx + 1]
           status == StatusOf(vflags.opp, file)
           lines == FileLines(vflags, header_printed, file, status)
       IN  /\ n_ok' = IF status = "OK" THEN n_ok + 1 ELSE n_ok
           /\ n_bad' = IF status = "OK" THEN n_bad ELSE n_bad + 1
           /\ printed' = printed \o lines
           /\ header_printed' =
                  (header_printed \/ \E k \in 1..Len(lines) : lines[k].kind = "header")
    /\ vidx' = vidx + 1
    /\ vpc' = IF vidx + 1 = Len(vfiles) THEN "summary" ELSE "loop"
    /\ UNCHANGED <<evtVars, poolVars, loopVars, workerVars, sinkVars>>
    /\ UNCHANGED <<vfiles, vflags>>

\* after the loop: "if not no_summary: print(...)"
ValSummary ==
    /\ vpc = "summary"
    /\ printed' = IF ~vflags.no_summary
                  THEN Append(printed, [kind |-> "summary", cols |-> <<n_ok, n_bad + n_ok>>])
                  ELSE printed
    /\ vpc' = "done"
    /\ UNCHANGED <<evtVars, poolVars, loopVars, workerVars, sinkVars>>
    /\ UNCHANGED <<vfiles, vflags, vidx, n_ok, n_bad, header_printed>>

ValNext ==
    \/ ValStart
    \/ ValFile
    \/ ValSummary

SpecValidate == ValInit /\ [][ValNext]_vars

(***************************************************************************)
(* Properties of the batch run (Spec)                                      *)
(***************************************************************************)
RECURSIVE SumEvt(_)
SumEvt(rs) == IF rs = <<>> THEN 0 ELSE rs[1].evtcnt + SumEvt(Tail(rs))

RECURSIVE SumOpp(_)
SumOpp(rs) == IF rs = <<>> THEN 0 ELSE rs[1].oppcnt + SumOpp(Tail(rs))

RECURSIVE SumReportEvt(_)
SumReportEvt(rp) == IF rp = <<>> THEN 0 ELSE rp[1].evtcnt_block + SumReportEvt(Tail(rp))

RECURSIVE SumReportOpp(_)
SumReportOpp(rp) == IF rp = <<>> THEN 0 ELSE rp[1].oppcnt_block + SumReportOpp(Tail(rp))

\* a block report was printed at the j-th completion
ReportAt(j) == \E k \in 1..Len(reports) : reports[k].done = j

\* floor(p_j / R) with p_j = (j / N) * 100
FloorPR(j) == (j * 100) \div (files * every)

\* the completion of the last block report, 0 if there is none
LastReportDone == IF reports = <<>> THEN 0 ELSE reports[Len(reports)].done

\* the results consumed since the last block report
CurrentBlock == SubSeq(consumed, LastReportDone + 1, Len(consumed))

\* file f meets a fault: its download fails for good or its worker is interrupted
Faulty(f) == (s3 /\ f \in s3_missing) \/ f \in sigint

\* C1: a failure while processing one file (decode error, download that
\* exhausted its retries, any other error in the worker, an interrupted
\* worker) becomes a failed-unit result (ok = false, evtcnt = 0, oppcnt = 0)
\* and never aborts the batch: the loop consumes one result per file and
\* reaches the final report.
C1_FailuresContained ==
    /\ pc # "aborted"
    /\ \A k \in 1..Len(outq) :
          /\ outq[k].kind = "result"
          /\ Faulty(outq[k].res.path) =>
                (~outq[k].res.ok /\ outq[k].res.evtcnt = 0 /\ outq[k].res.oppcnt = 0)
    /\ (pc = "done") => (completed = files)

\* the failures filter_one_file() does catch: a file that does not decode is
\* a failed unit and the batch goes on
C1_DecodeFailuresContained ==
    \A k \in 1..Len(consumed) :
        (BatchFile(consumed[k].path) = <<>>) =>
            (~consumed[k].ok /\ consumed[k].evtcnt = 0 /\ consumed[k].oppcnt = 0)

C1_FaultFreeBatchesFinish ==
    (s3_missing = {} /\ sigint = {}) => (pc # "aborted")

C3_ThreeFilesReached ==
    /\ pc = "done"
    /\ files = 3
    /\ every = 50
    /\ Len(reports) = 2

\* C4 as stated: after the last completion a non-empty current block is
\* flushed: a block report is printed for it and its counters are reset,
\* before the final report.
C4_TrailingBlockReported ==
    (pc = "done" /\ files > 0) =>
        /\ LastReportDone = files
        /\ evtcnt_block = 0
        /\ oppcnt_block = 0

\* C4 (amended): after the last completion, a current block with a positive
\* EVT count has its EVT and OPP counts added to the totals before the final
\* report; no block report is printed for it and its counters are not reset.
C4_TrailingBlockAdded ==
    (pc = "done") =>
        /\ evtcnt_block = SumEvt(CurrentBlock)
        /\ oppcnt_block = SumOpp(CurrentBlock)
        /\ evtcnt = SumReportEvt(reports) + SumEvt(CurrentBlock)
        /\ oppcnt = SumReportOpp(reports) +
                    (IF SumEvt(CurrentBlock) > 0 THEN SumOpp(CurrentBlock) ELSE 0)
        /\ Len(reports) = Cardinality({j \in 1..files : FloorPR(j) > FloorPR(j - 1)})

C4_Witness ==
    /\ pc = "done"
    /\ LastReportDone < files
    /\ evtcnt_block > 0
    /\ oppcnt_block > 0
    /\ reports # <<>>

\* the (evtcnt, oppcnt) of the sample files: rows in the file, rows in focus
SampleCounts == << <<2, 1>>, <<0, 0>>, <<1, 0>>, <<2, 2>> >>
ExpectedCounts(f) == SampleCounts[((f - 1) % Len(SampleCounts)) + 1]

RECURSIVE ExpectedSum(_, _)
ExpectedSum(n, k) == IF n = 0 THEN 0 ELSE ExpectedCounts(n)[k] + ExpectedSum(n - 1, k)

\* C5: the totals of the final report are exact and do not depend on the
\* order of completion or the number of workers: total EVT and OPP are the
\* sums over all N results, files parsed ok is the number of results with
\* ok = true, and total OPP <= total EVT.
C5_FinalTotals ==
    (pc = "done") =>
        /\ Len(consumed) = files
        /\ {consumed[k].path : k \in 1..Len(consumed)} = 1..files
        /\ evtcnt = SumEvt(consumed)
        /\ oppcnt = SumOpp(consumed)
        /\ files_ok = Cardinality({k \in 1..Len(consumed) : consumed[k].ok})
        /\ oppcnt <= evtcnt
        /\ evtcnt = ExpectedSum(files, 1)
        /\ oppcnt = ExpectedSum(files, 2)
        /\ files_ok = Cardinality({f \in 1..files : ExpectedCounts(f)[1] > 0})

C5_Witness ==
    /\ pc = "done"
    /\ files >= 4
    /\ cpus = 2
    /\ consumed[1].path = 2
    /\ consumed[files].path # files
    /\ evtcnt_block > 0
    /\ files_ok < files

(***************************************************************************)
(* Properties of the download (SpecWorker)                                 *)
(***************************************************************************)
AllFailed(a) == \A k \in 1..Len(a) : ~a[k]

\* C2: the download makes at most 5 attempts for one file: it stops at the
\* first attempt that succeeds (after 4 failures the 5th attempt returns the
\* bytes, 5 calls in all), and after 5 failed attempts it raises the last
\* failure without a 6th attempt.
C2_FetchAttempts ==
    /\ Len(attempts) <= 5
    /\ \A k \in 1..(Len(attempts) - 1) : ~attempts[k]
    /\ (~IsNone(fileobj)) <=> (attempts # <<>> /\ attempts[Len(attempts)])
    /\ (~IsNone(fileobj)) => (fileobj = Some(x) /\ wpc \notin {"fetch", "sleep"})
    /\ (Len(attempts) = 5 /\ AllFailed(attempts)) => (wpc = "raised" /\ wraised = "S3Error")
    /\ (wpc = "raised" /\ IsNone(fileobj) /\ s3) => (Len(attempts) = 5 /\ AllFailed(attempts))
    /\ (wpc \in {"fetch", "sleep"}) => (AllFailed(attempts) /\ Len(attempts) < 5)

C2_Witness ==
    /\ attempts = <<FALSE, FALSE, FALSE, FALSE, TRUE>>
    /\ fileobj = Some(x)
    /\ wpc = "returned"
    /\ result.ok

C2_GivesUpReached ==
    /\ attempts = <<FALSE, FALSE, FALSE, FALSE, FALSE>>
    /\ wpc = "raised"
    /\ slept = <<1, 2, 4, 8>>


(***************************************************************************)
(* Properties of the sinks (SpecSink)                                      *)
(***************************************************************************)
\* the identity under which file f is stored: its julian path
Ident(f) == get_julian_path(wevt[f])

\* the rows of a table stored under the identity of file f
RowsOf(table, f) ==
    SelectSeq(table, LAMBDA row : row.cruise = Cruise /\ row.file = Ident(f))

\* the insert statements the worker of file f sent to a table
CallsOf(f, table) ==
    { k \in 1..Len(db_calls) : db_calls[k].file = f /\ db_calls[k].table = table }

\* the worker of file f has finished filter_one_file, and filter retained k rows
Retained(f, k) ==
    /\ wst[f] = "returned"
    /\ ~IsNone(wevt[f].opp)
    /\ wevt[f].oppcnt = k

\* C11: when filter retains zero rows, the sink step of the worker inserts no
\* row in table opp or filter and creates nothing under the binary output
\* directory, neither a file nor a directory, whatever sinks are configured.
C11_NoWritesWhenEmpty ==
    \A f \in 1..files :
        Retained(f, 0) =>
            /\ CallsOf(f, "opp") = {} /\ CallsOf(f, "filter") = {}
            /\ \A e \in binary_root : e.by = f => e.path = <<>>

\* when filter retains zero rows the worker sends no insert and writes no file
C11_NoRowsNoFileWhenEmpty ==
    \A f \in 1..files :
        Retained(f, 0) =>
            /\ CallsOf(f, "opp") = {} /\ CallsOf(f, "filter") = {}
            /\ \A e \in binary_root : e.by = f => e.kind = "dir"

\* only the worker of a file with no retained row has been at work, and the
\* julian day directory exists
C11_EmptyDirectoryReached ==
    /\ files = 1
    /\ Retained(1, 0)
    /\ sopts.binary_dir
    /\ Exists(binary_root, "dir", <<"2014_186">>)

\* the values of the float columns of retained row r, as stored
StoredFloats(r) ==
    [c \in 1..8 |-> [pow10 |-> Fr(7 * r[c + 2], 2 * 65536)]]

\* C12: a file with k > 0 retained rows written to the database has exactly
\* one row in table filter under (cruise, file), with or without particle
\* rows; with particle rows enabled it has exactly k rows in table opp, keyed
\* (cruise, file, s) with s = 1..k in the order of the retained rows; with
\* particle rows disabled it has none.
C12_RowsWritten ==
    \A f \in 1..files :
        (sopts.db /\ wst[f] = "returned" /\ wevt[f].oppcnt > 0) =>
            LET k == wevt[f].oppcnt
                summary == RowsOf(db.filter, f)
                particles == RowsOf(db.opp, f)
            IN  /\ Len(summary) = 1
                /\ summary[1].opp_count = k
                /\ summary[1].evt_count = wevt[f].evtcnt
                /\ Cardinality(CallsOf(f, "filter")) = 1
                /\ IF sopts.no_opp_db
                   THEN particles = <<>> /\ CallsOf(f, "opp") = {}
                   ELSE /\ Len(particles) = k
                        /\ Cardinality(CallsOf(f, "opp")) = 1
                        /\ \A j \in 1..k :
                              /\ particles[j].particle = j
                              /\ particles[j].ints[1] = Val(wevt[f].opp)[j][ColTime]
                              /\ particles[j].floats = StoredFloats(Val(wevt[f].opp)[j])

\* a file with two retained rows is stored with its particle rows
C12_Witness ==
    \E f \in 1..files :
        /\ sopts.db /\ ~sopts.no_opp_db
        /\ Retained(f, 2)
        /\ Len(RowsOf(db.opp, f)) = 2
        /\ Len(RowsOf(db.filter, f)) = 1

\* a file with retained rows is stored without particle rows
C12_SummaryOnlyReached ==
    \E f \in 1..files :
        /\ sopts.db /\ sopts.no_opp_db
        /\ Retained(f, 1)
        /\ Len(RowsOf(db.filter, f)) = 1
        /\ db.opp = <<>>

\* the exception of file f's worker is on the result queue, or has been
\* re-raised in the loop of filter_files
ReachesLoop(f) ==
    \/ \E k \in 1..Len(outq) : outq[k].kind = "exception" /\ outq[k].res.path = f
    \/ pc = "aborted"

\* C13: a failed insert is propagated: the worker of the file raises, the
\* exception reaches the loop of filter_files, the file is not counted as a
\* result, and no insert is sent for that file afterwards.
C13_WriteFailurePropagates ==
    \A k \in 1..Len(db_calls) :
        ~db_calls[k].ok =>
            LET f == db_calls[k].file
            IN  /\ wst[f] = "raised"
                /\ ReachesLoop(f)
                /\ \A j \in 1..Len(consumed) : consumed[j].path # f
                /\ \A j \in 1..Len(db_calls) : db_calls[j].file = f => j <= k
                /\ Cardinality(CallsOf(f, db_calls[k].table)) = 1

\* the insert in table filter failed and the run was aborted by it
C13_Witness ==
    /\ pc = "aborted"
    /\ \E k \in 1..Len(db_calls) :
          /\ ~db_calls[k].ok
          /\ db_calls[k].table = "filter"
          /\ wst[db_calls[k].file] = "raised"

\* the worker of file f has finished or failed
Settled(f) == wst[f] \in {"returned", "raised"}

\* C17: persistence of one file is one transaction: once the worker of a file
\* has finished or failed, the database holds all of the file's particle rows
\* together with its summary row, or none of them.
C17_AllOrNothing ==
    \A f \in 1..files :
        (Settled(f) /\ sopts.db /\ ~sopts.no_opp_db) =>
            \/ RowsOf(db.opp, f) = <<>> /\ RowsOf(db.filter, f) = <<>>
            \/ (RowsOf(db.filter, f) # <<>> /\ Len(RowsOf(db.opp, f)) = RowsOf(db.filter, f)[1].opp_count)

\* each of the two inserts is atomic: a file's particle rows are all there
\* or none is
C17_EachInsertAtomic ==
    \A f \in 1..files :
        (sopts.db /\ wevt[f].oppcnt > 0 /\ Cardinality(CallsOf(f, "opp")) = 1) =>
            Len(RowsOf(db.opp, f)) \in {0, wevt[f].oppcnt}

\* particle rows of a file are stored and its summary row is not
C17_ParticlesWithoutSummaryReached ==
    \E f \in 1..files :
        /\ Settled(f)
        /\ RowsOf(db.opp, f) # <<>>
        /\ RowsOf(db.filter, f) = <<>>


(***************************************************************************)
(* Properties of the validation command (SpecValidate)                     *)
(***************************************************************************)
\* the name of a file has the form the mode expects, and its decode succeeds
Passes(file) ==
    /\ (IF vflags.opp THEN file.looks = "opp" ELSE file.looks = "evt")
    /\ read_labview(file).raised = ""

\* the per-file lines printed so far
FileLinesPrinted == SelectSeq(printed, LAMBDA l : l.kind = "file")

\* the positions, in input order, of the files gone through that fail
FailedSoFar == SelectSeq([i \in 1..vidx |-> i], LAMBDA i : ~Passes(vfiles[i]))

\* the command touches neither the filter nor the sinks
NothingFilteredOrStored ==
    /\ epc = "idle" /\ IsNone(obj.opp)
    /\ db = EmptyDb /\ binary_root = {} /\ db_calls = <<>>

\* a per-file line reports file i with its pass/fail status
ReportsStatus(line, i) ==
    /\ line.cols[1] = vfiles[i].name
    /\ (line.cols[2] = "OK") <=> Passes(vfiles[i])

\* C14 as stated: validation reports, for each input file in input order, its
\* pass/fail status and, when it passes, its row count, and filters and
\* persists nothing; a file passes iff its name has the expected form and its
\* decode succeeds.
C14_EveryFileReported ==
    (vpc = "done") =>
        /\ NothingFilteredOrStored
        /\ Len(FileLinesPrinted) = Len(vfiles)
        /\ \A i \in 1..Len(vfiles) :
              /\ ReportsStatus(FileLinesPrinted[i], i)
              /\ Passes(vfiles[i]) =>
                    /\ Len(FileLinesPrinted[i].cols) = 3
                    /\ FileLinesPrinted[i].cols[3] = Str(read_labview(vfiles[i]).rows)

\* C14 (amended): validation filters and persists nothing; a file passes iff
\* its name has the expected form and its decode succeeds; with verbose it
\* reports every file in input order with its status and its row count ("-"
\* for a file that fails); without verbose it reports only the files that
\* fail, in input order, with their status.
C14_ReportedByMode ==
    /\ NothingFilteredOrStored
    /\ vflags.verbose =>
          /\ Len(FileLinesPrinted) = vidx
          /\ \A i \in 1..vidx :
                /\ ReportsStatus(FileLinesPrinted[i], i)
                /\ Len(FileLinesPrinted[i].cols) = 3
                /\ FileLinesPrinted[i].cols[3] =
                      (IF Passes(vfiles[i]) THEN Str(read_labview(vfiles[i]).rows) ELSE "-")
    /\ ~vflags.verbose =>
          /\ Len(FileLinesPrinted) = Len(FailedSoFar)
          /\ \A k \in 1..Len(FailedSoFar) :
                /\ ReportsStatus(FileLinesPrinted[k], FailedSoFar[k])
                /\ Len(FileLinesPrinted[k].cols) = 2

\* without verbose, three files of which one passes: two per-file lines
C14_Witness ==
    /\ vpc = "done"
    /\ ~vflags.verbose
    /\ Len(vfiles) = 3
    /\ n_ok = 1
    /\ Len(FileLinesPrinted) = 2
    /\ Passes(vfiles[2])

\* with verbose, a passing file is reported with its two rows
C14_VerboseReached ==
    /\ vpc = "done"
    /\ vflags.verbose
    /\ \E k \in 1..Len(FileLinesPrinted) : FileLinesPrinted[k].cols[3] = "2"
    /\ \E k \in 1..Len(FileLinesPrinted) : FileLinesPrinted[k].cols[3] = "-"

\* the positions in the output of the lines of a kind
PositionsOf(kind) == { k \in 1..Len(printed) : printed[k].kind = kind }

\* C18: over a non-empty list every file is counted once, as passed or as
\* failed: after the i-th file ok + bad = i; the summary line reports ok out
\* of the number of input files; the header is printed at most once and
\* before the first per-file line; with no file nothing is printed, not even
\* the summary.
C18_CountsAndHeader ==
    /\ n_ok + n_bad = vidx
    /\ n_bad = Len(FailedSoFar)
    /\ Cardinality(PositionsOf("header")) <= 1
    /\ \A h \in PositionsOf("header") : \A k \in PositionsOf("file") : h < k
    /\ vflags.no_header => PositionsOf("header") = {}
    /\ (vpc = "done" /\ vfiles # <<>> /\ ~vflags.no_summary) =>
          /\ PositionsOf("summary") = {Len(printed)}
          /\ printed[Len(printed)].cols = <<n_ok, Len(vfiles)>>
    /\ (vpc # "done" \/ vflags.no_summary) => PositionsOf("summary") = {}
    /\ vfiles = <<>> => printed = <<>>

\* three files, two of them failing, a header and the summary
C18_Witness ==
    /\ vpc = "done"
    /\ Len(vfiles) = 3
    /\ n_ok = 1 /\ n_bad = 2
    /\ PositionsOf("header") = {1}
    /\ Cardinality(PositionsOf("file")) >= 2
    /\ PositionsOf("summary") = {Len(printed)}

\* the command has returned on an empty list
C18_EmptyListReached ==
    /\ vpc = "done"
    /\ vfiles = <<>>
    /\ ~vflags.no_summary
    /\ printed = <<>>

=============================================================================
